---- MODULE Spec2Model ----
(***************************************************************************)
(* Model of the Discord sports-betting bot (src/unnamed/part_000, first    *)
(* variant, and the handlers of src/bot.js, first variant).                *)
(*                                                                         *)
(* Time is Date.now() in milliseconds.  Every synchronous stretch of a     *)
(* handler between two awaits is one atomic action (single-threaded event  *)
(* loop); the awaits on HTTP requests are the interleaving points.         *)
(***************************************************************************)
EXTENDS Integers, Sequences, FiniteSets, TLC

(***************************************************************************)
(* Program constants                                                       *)
(***************************************************************************)
HISTORY_LIMIT == 20

CACHE_TTL == 30 * 1000

PRICE_HISTORY_TTL == 10 * 60 * 1000

MINUTE == 60000

SMALL_MOVE == 3

NULL == "null"

(***************************************************************************)
(* Bounds of the model                                                     *)
(***************************************************************************)
MaxTicks == 3

MaxSamples == 3

\* clock advances that the model explores (ms): 15 s, 45 s, 2 min, 10 min
TickSteps == {15000, 45000, 120000, 600000}

Markets == {"KXA", "KXB"}

PriceSet == {47, 50, 52, 54}

Teams == {"BUCKS"}

\* total number of HTTP requests the model lets the clients issue
MaxCalls == 2

\* number of clock advances while the clients are exercised
MaxNetTicks == 2

\* clock advances explored while requests are in flight (ms): 15 s and 45 s
NetTickSteps == {15000, 45000}

Sports == {"basketball_nba", "americanfootball_nfl"}

\* total number of addHistory calls, of calls on the second channel and of
\* assistant entries when the history buffer is exercised on its own
MaxEntries == 22

MaxSide == 1

MaxAssist == 2

Channels == {"c1", "c2"}

\* number of chat messages the bot receives and of HTTP requests their handlers issue
MaxMsgs == 1

MaxBotCalls == 4

\* number of messages of a conversation with the AI
MaxChatMsgs == 2

\* number of whitespace-separated words of a query
MaxWords == 3

\* number of `!sports` messages a later program of bot.js receives
MaxSportsMsgs == 2

\* number of clock advances while the bot handles messages
MaxBotTicks == 1

\* the two bot programs: src/unnamed/part_000 (lines 1-924) and src/bot.js (lines 1-390)
Variants == {"live", "basic"}

\* the two later programs of bot.js, of which the model has the `!sports` branch
SportsVariants == {"bulletproof", "guarded"}

\* first word of a message ("" when the text is nothing but a mention)
Commands == {"!help", "!clear", "!odds", "!live", "!games", "!kalshi", "!ask", "!math",
             "!summary", "!sports", "hello", ""}

\* the text after the first word ("" when there is none)
Args == {"", "bucks", "nfl"}

\* lengths of the answers of the AI API
AnswerLens == {100, 2500}

Roles == {"user", "assistant"}

\* largest price in cents passed to centsToAmericanOdds (the smallest is -3)
MaxCents == 103

CentsInputs == (-3)..MaxCents

\* longest text passed to sendResponse, in characters
MaxTextLen == 5800

\* the lengths explored: every multiple of 100 and its two neighbours
TextLens == {n \in 0..MaxTextLen : n % 100 \in {0, 1, 99}}

VARIABLES
    now,            \* Date.now()
    ticks,          \* number of clock advances so far (bounded by MaxTicks)
    priceHistory,   \* Map marketId -> [{price, timestamp, team}, ...]
    priceHistory4,  \* the Map of part_004: marketId -> [{price, timestamp}, ...]
    cache,          \* { kalshi, polymarket, oddsApi: Map, scores: Map }
    hasOddsKey,     \* whether ODDS_API_KEY is set in the environment
    inflight,       \* HTTP requests awaiting their response
    nextReq,        \* number of HTTP requests issued so far
    netCalls,       \* per resource key, the number of HTTP requests issued (axios.get calls)
    lastOk,         \* per resource key, the latest successful response: [at, data]
    conversationHistory, \* Map channelId -> [{role, content}, ...]
    entries,        \* number of entries pushed to the histories so far
    variant,        \* which bot program runs
    handlers,       \* the messageCreate handler of every message received so far
    lastOp          \* the operation executed last, with its arguments and the state it read

vars == <<now, ticks, priceHistory, priceHistory4, cache, hasOddsKey, inflight, nextReq, netCalls, lastOk,
          conversationHistory, entries, variant, handlers, lastOp>>

netVars == <<cache, hasOddsKey, inflight, nextReq, netCalls, lastOk>>

botVars == <<variant, handlers>>

chatVars == <<conversationHistory, entries, botVars>>

priceVars == <<netVars, chatVars>>

Abs(x) == IF x < 0 THEN -x ELSE x

\* truncation instead of rounding
MathTrunc(num, den) == num \div den

\* Math.round(num / den) for den > 0: nearest integer, halves towards +infinity
MathRound(num, den) == (2 * num + den) \div (2 * den)

\* lastOp records which operation ran last: its key, its argument and the
\* value it read before it changed anything
Op(name, key, arg, before, ret) ==
    [op |-> name, key |-> key, arg |-> arg, before |-> before, ret |-> ret]

NoOp == Op("init", NULL, 0, <<>>, NULL)

(***************************************************************************)
(* Price history tracker                                                   *)
(***************************************************************************)
RECURSIVE ShiftOldInclusive(_, _)
\* eviction that also drops a sample exactly as old as the retention window
ShiftOldInclusive(history, cutoff) ==
    IF Len(history) > 0 /\ history[1].timestamp <= cutoff
    THEN ShiftOldInclusive(Tail(history), cutoff)
    ELSE history

\* an eviction that tests the front once (an if in place of the while)
ShiftOldOnce(history, cutoff) ==
    IF Len(history) > 0 /\ history[1].timestamp < cutoff THEN Tail(history) ELSE history

RECURSIVE ShiftOld(_, _)
\* while (history.length > 0 && history[0].timestamp < cutoff) history.shift()
ShiftOld(history, cutoff) ==
    IF Len(history) > 0 /\ history[1].timestamp < cutoff
    THEN ShiftOld(Tail(history), cutoff)
    ELSE history

\* priceHistory.get(marketId), [] when the key was just created
SeriesOf(ph, marketId) ==
    IF marketId \in DOMAIN ph THEN ph[marketId] ELSE <<>>

\* a recordPrice that applies the cutoff to the series of every market
recordPricePruneAll(ph, marketId, price, teamName, t) ==
    LET pushed == Append(SeriesOf(ph, marketId),
                         [price |-> price, timestamp |-> t, team |-> teamName])
        cutoff == t - PRICE_HISTORY_TTL
    IN [k \in DOMAIN ph \cup {marketId} |->
           ShiftOld(IF k = marketId THEN pushed ELSE ph[k], cutoff)]

\* the Map after recordPrice(marketId, price, teamName) executed at time t
recordPrice(ph, marketId, price, teamName, t) ==
    LET pushed == Append(SeriesOf(ph, marketId),
                         [price |-> price, timestamp |-> t, team |-> teamName])
        cutoff == t - PRICE_HISTORY_TTL
        kept == ShiftOld(pushed, cutoff)
    IN [k \in DOMAIN ph \cup {marketId} |-> IF k = marketId THEN kept ELSE ph[k]]

\* the null result of getPriceMovement (a record, so that results compare)
NoMovement == [change |-> 0, minutesAgo |-> 0, direction |-> NULL, team |-> NULL]

\* a tracker that keeps one buffer for all markets: a short series is
\* compared against the samples of another market
getPriceMovementShared(ph, marketId) ==
    LET others == {k \in DOMAIN ph : Len(ph[k]) >= 1}
        own == SeriesOf(ph, marketId)
    IN IF others = {} THEN NoMovement
       ELSE LET k0 == CHOOSE k \in others : \A j \in others : ph[k][1].timestamp <= ph[j][1].timestamp
                current == IF Len(own) > 0 THEN own[Len(own)] ELSE ph[k0][Len(ph[k0])]
                oldest == ph[k0][1]
                minutesAgo == MathRound(current.timestamp - oldest.timestamp, MINUTE)
                change == current.price - oldest.price
            IN IF minutesAgo < 1 THEN NoMovement
               ELSE IF Abs(change) < SMALL_MOVE THEN NoMovement
               ELSE [change |-> change,
                     minutesAgo |-> minutesAgo,
                     direction |-> IF change > 0 THEN "up" ELSE "down",
                     team |-> current.team]

\* a movement measured against the sample before the newest one
getPriceMovementPrev(ph, marketId) ==
    IF marketId \notin DOMAIN ph \/ Len(ph[marketId]) < 2 THEN NoMovement
    ELSE LET history == ph[marketId]
             current == history[Len(history)]
             oldest == history[Len(history) - 1]
             minutesAgo == MathRound(current.timestamp - oldest.timestamp, MINUTE)
             change == current.price - oldest.price
         IN IF minutesAgo < 1 THEN NoMovement
            ELSE IF Abs(change) < SMALL_MOVE THEN NoMovement
            ELSE [change |-> change,
                  minutesAgo |-> minutesAgo,
                  direction |-> IF change > 0 THEN "up" ELSE "down",
                  team |-> current.team]

\* the value of getPriceMovement(marketId); reads priceHistory only
getPriceMovement(ph, marketId) ==
    IF marketId \notin DOMAIN ph \/ Len(ph[marketId]) < 2 THEN NoMovement
    ELSE LET history == ph[marketId]
             current == history[Len(history)]
             oldest == history[1]
             minutesAgo == MathRound(current.timestamp - oldest.timestamp, MINUTE)
             change == current.price - oldest.price
         IN IF minutesAgo < 1 THEN NoMovement
            ELSE IF Abs(change) < SMALL_MOVE THEN NoMovement
            ELSE [change |-> change,
                  minutesAgo |-> minutesAgo,
                  direction |-> IF change > 0 THEN "up" ELSE "down",
                  team |-> current.team]

\* while (history.length > 100) history.shift()
ShiftOver(history, limit) ==
    IF Len(history) > limit
    THEN SubSeq(history, Len(history) - limit + 1, Len(history))
    ELSE history

\* the Map of part_004 after its recordPrice(marketId, price) executed at time t
recordPrice4(ph, marketId, price, t) ==
    LET pushed == Append(SeriesOf(ph, marketId), [price |-> price, timestamp |-> t])
    IN [k \in DOMAIN ph \cup {marketId} |->
           IF k = marketId THEN ShiftOver(pushed, 100) ELSE ph[k]]

\* the null result of the getPriceMovement of part_004
NoMovement4 == [change |-> 0, direction |-> NULL]

\* the value of the getPriceMovement(marketId) of part_004
getPriceMovement4(ph, marketId) ==
    IF marketId \notin DOMAIN ph \/ Len(ph[marketId]) < 2 THEN NoMovement4
    ELSE LET history == ph[marketId]
             current == history[Len(history)]
             oldest == history[1]
             change == current.price - oldest.price
         IN IF Abs(change) < 3 THEN NoMovement4
            ELSE [change |-> change, direction |-> IF change > 0 THEN "up" ELSE "down"]

RECURSIVE SumLen(_, _)
SumLen(ph, keys) ==
    IF keys = {} THEN 0
    ELSE LET k == CHOOSE x \in keys : TRUE
         IN Len(ph[k]) + SumLen(ph, keys \ {k})

\* number of samples held in all series together
HeldSamples(ph) == SumLen(ph, DOMAIN ph)

(***************************************************************************)
(* JavaScript values held in the caches and returned by the clients        *)
(***************************************************************************)
JsNull == [kind |-> "null", items |-> <<>>]

Arr(items) == [kind |-> "array", items |-> items]

EmptyArr == Arr(<<>>)

\* truthiness of a payload: null is falsy, every array (also []) is truthy
Truthy(v) == v.kind # "null"

\* v || []
OrEmpty(v) == IF Truthy(v) THEN v ELSE EmptyArr

Market(ticker, yes_bid, title) == [ticker |-> ticker, yes_bid |-> yes_bid, title |-> title]

\* tickers that contain MULTIGAME or EXTENDED
ParlayTickers == {"KXMULTIGAME"}

\* res.data.markets of the responses of the Kalshi markets endpoint
KalshiBodies ==
    { JsNull,
      Arr(<<Market("KXA", 50, "BUCKS")>>),
      Arr(<<Market("KXMULTIGAME", 60, "BUCKS"), Market("KXA", 54, "BUCKS"),
            Market("KXB", 0, "OTHER")>>) }

\* a game or event of a provider: its title, whether the title names a
\* sports league and whether it names a futures market
Game(title) == [title |-> title, sports |-> TRUE, futures |-> FALSE]

\* the responses of the endpoints that are called without a cache: the AI
\* API answers with a text of some length, the others with a body or none
RawBodies(client) ==
    IF client = "ai" THEN {[kind |-> "answer", items |-> <<n>>] : n \in AnswerLens}
    ELSE {JsNull, Arr(<<Game("BUCKS")>>)}

\* res.data of the responses of the Polymarket, odds and scores endpoints
ListBodies == { JsNull, Arr(<<Game("BUCKS")>>) }

Clients == {"kalshi", "polymarket", "oddsApi", "scores"}

\* the resource keys of a client: a sport, or one key for each market source
KeysOf(client) == IF client \in {"oddsApi", "scores"} THEN Sports ELSE {"*"}

ResourceKeys == {rk \in Clients \X (Sports \cup {"*"}) : rk[2] \in KeysOf(rk[1])}

BodiesOf(client) ==
    IF client = "kalshi" THEN KalshiBodies
    ELSE IF client \in Clients THEN ListBodies
    ELSE RawBodies(client)

\* no response has arrived yet; seen: the payloads of all successful responses so far
NoResponse == [at |-> -1, data |-> JsNull, seen |-> {}]

NewCache ==
    [kalshi |-> [data |-> JsNull, timestamp |-> 0],
     polymarket |-> [data |-> JsNull, timestamp |-> 0],
     oddsApi |-> <<>>,
     scores |-> <<>>]

\* validity test that still serves an entry exactly CACHE_TTL old
isCacheValidInclusive(entry, t) ==
    Truthy(entry.data) /\ (t - entry.timestamp) <= CACHE_TTL

isCacheValid(entry, t) ==
    Truthy(entry.data) /\ (t - entry.timestamp) < CACHE_TTL

\* Map.set(key, value)
MapSet(m, key, value) ==
    [k \in DOMAIN m \cup {key} |-> IF k = key THEN value ELSE m[k]]

\* whether the cache holds an entry object for the resource (cached is not undefined)
HasEntry(c, client, key) ==
    CASE client = "kalshi" -> TRUE
      [] client = "polymarket" -> TRUE
      [] client = "oddsApi" -> key \in DOMAIN c.oddsApi
      [] client = "scores" -> key \in DOMAIN c.scores

\* what reading data and timestamp of an undefined entry yields
NoEntry == [data |-> JsNull, timestamp |-> 0]

\* the entry object of the resource; for an absent Map key the undefined entry
EntryOf(c, client, key) ==
    CASE client = "kalshi" -> c.kalshi
      [] client = "polymarket" -> c.polymarket
      [] client = "oddsApi" -> IF key \in DOMAIN c.oddsApi THEN c.oddsApi[key] ELSE NoEntry
      [] client = "scores" -> IF key \in DOMAIN c.scores THEN c.scores[key] ELSE NoEntry
      [] OTHER -> NoEntry

\* a cache that keeps the entry it has when a second response arrives
StoreEntryFirstWins(c, client, key, data, t) ==
    LET e == [data |-> data, timestamp |-> t]
        keep == Truthy(EntryOf(c, client, key).data)
    IN CASE keep -> c
         [] client = "kalshi" -> [c EXCEPT !.kalshi = e]
         [] client = "polymarket" -> [c EXCEPT !.polymarket = e]
         [] client = "oddsApi" -> [c EXCEPT !.oddsApi = MapSet(c.oddsApi, key, e)]
         [] client = "scores" -> [c EXCEPT !.scores = MapSet(c.scores, key, e)]

\* the cache after  cache.<client> = { data, timestamp }  resp. Map.set(sport, {...})
StoreEntry(c, client, key, data, t) ==
    LET e == [data |-> data, timestamp |-> t]
    IN CASE client = "kalshi" -> [c EXCEPT !.kalshi = e]
         [] client = "polymarket" -> [c EXCEPT !.polymarket = e]
         [] client = "oddsApi" -> [c EXCEPT !.oddsApi = MapSet(c.oddsApi, key, e)]
         [] client = "scores" -> [c EXCEPT !.scores = MapSet(c.scores, key, e)]

\* the markets kept by the filter of getKalshiMarkets
KalshiFilter(markets) == SelectSeq(markets, LAMBDA m : m.ticker \notin ParlayTickers)

RECURSIVE RecordAllBids(_, _, _)
\* a loop that records every market, also one without a bid
RecordAllBids(ph, markets, t) ==
    IF markets = <<>> THEN ph
    ELSE LET m == Head(markets)
         IN RecordAllBids(recordPrice(ph, m.ticker, m.yes_bid, m.title, t), Tail(markets), t)

RECURSIVE RecordAll(_, _, _)
\* markets.forEach(m => { if (m.yes_bid) recordPrice(m.ticker, m.yes_bid, m.title) })
RecordAll(ph, markets, t) ==
    IF markets = <<>> THEN ph
    ELSE LET m == Head(markets)
             ph1 == IF m.yes_bid # 0 THEN recordPrice(ph, m.ticker, m.yes_bid, m.title, t) ELSE ph
         IN RecordAll(ph1, Tail(markets), t)

\* the payload a successful response is turned into before it is cached
Normalize(client, body) ==
    IF client = "kalshi" THEN Arr(KalshiFilter(OrEmpty(body).items)) ELSE OrEmpty(body)

\* whether the synchronous part of a client call answers without a request:
\* a missing ODDS_API_KEY, or a cache hit
AnswersAtOnce(client, key) ==
    \/ client \in {"oddsApi", "scores"} /\ ~hasOddsKey
    \/ HasEntry(cache, client, key) /\ isCacheValid(EntryOf(cache, client, key), now)

\* the value returned by a call that answers without a request
ValueAtOnce(client, key) ==
    IF client \in {"oddsApi", "scores"} /\ ~hasOddsKey THEN EmptyArr
    ELSE EntryOf(cache, client, key).data

\* the request a client issues at time now: the odds client keeps the entry it read (cached)
Request(client, key, owner) ==
    [id |-> nextReq + 1, client |-> client, key |-> key, owner |-> owner,
     cached |-> EntryOf(cache, client, key).data, at |-> now]

\* a `!sports` handler whose requests reject into the joined await
CaughtNever(r) == FALSE

\* the request has a .catch of its own that returns []: the two requests of
\* `!sports` in the later programs of bot.js
Caught(r) == variant \in SportsVariants /\ r.client \in {"rawKalshi", "rawPoly"}

\* the value the catch block of the client returns (the clients without a
\* cache or a catch have no catch block: their callers see the rejection)
FailValue(r) ==
    CASE Caught(r) -> EmptyArr
      [] r.client = "kalshi" -> OrEmpty(cache.kalshi.data)
      [] r.client = "polymarket" -> OrEmpty(cache.polymarket.data)
      [] r.client = "oddsApi" -> OrEmpty(r.cached)
      [] r.client = "scores" -> EmptyArr
      [] OTHER -> JsNull

(***************************************************************************)
(* Conversation history                                                    *)
(***************************************************************************)
\* getHistory(channelId): the array of the channel, [] for a new channel
getHistory(ch, channelId) ==
    IF channelId \in DOMAIN ch THEN ch[channelId] ELSE <<>>

\* a buffer that evicts only once it holds more than HISTORY_LIMIT + 1 entries
addHistoryLate(ch, channelId, role, content) ==
    LET h == Append(getHistory(ch, channelId), [role |-> role, content |-> content])
    IN MapSet(ch, channelId, IF Len(h) > HISTORY_LIMIT + 1 THEN Tail(h) ELSE h)

\* the Map after addHistory(channelId, role, content)
addHistory(ch, channelId, role, content) ==
    LET h == Append(getHistory(ch, channelId), [role |-> role, content |-> content])
    IN MapSet(ch, channelId, IF Len(h) > HISTORY_LIMIT THEN Tail(h) ELSE h)

\* number of entries with the given role in all histories
RoleCount(ch, role) ==
    Cardinality({<<c, i>> \in (DOMAIN ch) \X (1..HISTORY_LIMIT) :
                    i <= Len(ch[c]) /\ ch[c][i].role = role})

(***************************************************************************)
(* Messages, command routing and replies                                   *)
(***************************************************************************)
\* the messages the model sends to the bot; the trimmed text of a message is
\* cmd, followed by a space and arg when arg is not empty
Messages ==
    {msg \in [cmd : Commands, arg : Args, mention : BOOLEAN, bot : BOOLEAN, chan : Channels] :
        /\ msg.arg = "nfl" => msg.cmd \in {"!games", "!odds"}
        /\ msg.cmd = "" => (msg.arg = "" /\ msg.mention)
        /\ msg.chan = "c2" => (msg.cmd \in {"!ask", "!clear"} /\ ~msg.mention /\ ~msg.bot)
        /\ msg.bot => (msg.cmd = "!clear" /\ msg.arg = "" /\ msg.mention)
        /\ msg.mention => msg.cmd \in {"!help", "!math", "!ask", "hello", "", "!clear"}}

\* lower === word
IsWord(msg, word) == msg.cmd = word /\ msg.arg = ""

\* lower.startsWith(word)
StartsWith(msg, word) == msg.cmd = word

\* lower.startsWith(word + ' '): the trimmed text continues after the space
StartsWithSpace(msg, word) == msg.cmd = word /\ msg.arg # ""

\* content.replace(/<@!?\d+>/g, '').trim(): empty when nothing but mentions was sent
HasQuestion(msg) == msg.cmd # ""

\* a dispatch chain that tests the mention before the command patterns
RouteLiveMentionFirst(msg) ==
    IF msg.bot THEN "ignored"
    ELSE IF msg.mention THEN "mention"
    ELSE IF IsWord(msg, "!help") THEN "help"
    ELSE IF IsWord(msg, "!clear") THEN "clear"
    ELSE IF StartsWith(msg, "!live") THEN "live"
    ELSE IF StartsWith(msg, "!odds") THEN "odds"
    ELSE IF StartsWith(msg, "!games") THEN "games"
    ELSE IF StartsWith(msg, "!kalshi") THEN "kalshi"
    ELSE IF StartsWithSpace(msg, "!math") THEN "math"
    ELSE IF StartsWithSpace(msg, "!summary") THEN "summary"
    ELSE IF StartsWithSpace(msg, "!ask") THEN "ask"
    ELSE "none"

\* the branch of the messageCreate handler of part_000 that takes the message
RouteLive(msg) ==
    IF msg.bot THEN "ignored"
    ELSE IF IsWord(msg, "!help") THEN "help"
    ELSE IF IsWord(msg, "!clear") THEN "clear"
    ELSE IF StartsWith(msg, "!live") THEN "live"
    ELSE IF StartsWith(msg, "!odds") THEN "odds"
    ELSE IF StartsWith(msg, "!games") THEN "games"
    ELSE IF StartsWith(msg, "!kalshi") THEN "kalshi"
    ELSE IF StartsWithSpace(msg, "!math") THEN "math"
    ELSE IF StartsWithSpace(msg, "!summary") THEN "summary"
    ELSE IF StartsWithSpace(msg, "!ask") THEN "ask"
    ELSE IF msg.mention THEN "mention"
    ELSE "none"

\* the branch of the messageCreate handler of bot.js that takes the message
RouteBasic(msg) ==
    IF msg.bot THEN "ignored"
    ELSE IF StartsWithSpace(msg, "!kalshi") THEN "ticker"
    ELSE IF IsWord(msg, "!sports") THEN "sports"
    ELSE IF StartsWithSpace(msg, "!math") THEN "math"
    ELSE IF StartsWithSpace(msg, "!summary") THEN "summary"
    ELSE IF IsWord(msg, "!help") THEN "help"
    ELSE IF StartsWithSpace(msg, "!ask") THEN "ask"
    ELSE IF msg.mention THEN "mention"
    ELSE "none"

\* the `!sports` branch of the later programs of bot.js, which the model sends
\* no other command
RouteSports(msg) ==
    IF msg.bot THEN "ignored"
    ELSE IF IsWord(msg, "!sports") THEN "sports"
    ELSE "none"

Route(v, msg) ==
    IF v = "live" THEN RouteLive(msg)
    ELSE IF v = "basic" THEN RouteBasic(msg)
    ELSE RouteSports(msg)

\* a message sent by the bot: message.reply or message.channel.send, text or embed
Sent(via, kind, tag, len) == [via |-> via, kind |-> kind, tag |-> tag, len |-> len]

Text(tag) == <<Sent("reply", "text", tag, 50)>>

Embed(tag) == <<Sent("reply", "embed", tag, 0)>>

\* a count of whole pieces only, which leaves the remainder in the last piece
PiecesFloor(len) == len \div 1900

\* number of pieces of response.match(/.{1,1900}/gs)
Pieces(len) == (len + 1899) \div 1900

\* the messages sendResponse / sendResponseWithTyping send for a text of the given length
sendResponse(len) ==
    IF len <= 2000 THEN <<Sent("reply", "text", "answer", len)>>
    ELSE [i \in 1..Pieces(len) |->
            Sent(IF i = 1 THEN "reply" ELSE "send", "text", "answer",
                 IF i < Pieces(len) THEN 1900 ELSE len - 1900 * (Pieces(len) - 1))]

\* length of the apology chatWithClaude returns when the AI call fails
ApologyLen == 70

RECURSIVE Chunks(_, _)
\* the successive greedy matches of /.{1,1900}/gs from position from on, as
\* ranges of character positions (the s flag lets . match every character)
Chunks(from, len) ==
    IF from > len THEN <<>>
    ELSE LET to == IF from + 1899 < len THEN from + 1899 ELSE len
         IN <<[from |-> from, to |-> to]>> \o Chunks(to + 1, len)

\* response.match(/.{1,1900}/gs) || []
matchChunks(len) == Chunks(1, len)

\* the null result of centsToAmericanOdds (a record, so that results compare)
NullOdds == [isNull |-> TRUE, value |-> 0, text |-> FALSE]

\* a result of centsToAmericanOdds; text: returned as a string with a leading +
Odds(n, text) == [isNull |-> FALSE, value |-> n, text |-> text]

\* the files whose centsToAmericanOdds differ: part_006 returns `+${odds}` for underdogs
OddsFiles == {"part_000", "part_006"}

\* a conversion that treats an even market as an underdog
centsToAmericanOddsEven(file, cents) ==
    IF cents = 0 \/ cents <= 0 \/ cents >= 100 THEN NullOdds
    ELSE IF cents > 50 THEN Odds(MathRound(-(cents * 100), 100 - cents), FALSE)
    ELSE Odds(MathRound((100 - cents) * 100, cents), file = "part_006")

\* centsToAmericanOdds(cents); the quotients are exact in floating point at the
\* only half-way inputs (68/32 = 2.125) and elsewhere at least 1/200 away from
\* a half, so Math.round of the exact rational gives the value of the code
centsToAmericanOdds(file, cents) ==
    IF cents = 0 \/ cents <= 0 \/ cents >= 100 THEN NullOdds
    ELSE IF cents >= 50 THEN Odds(MathRound(-(cents * 100), 100 - cents), FALSE)
    ELSE Odds(MathRound((100 - cents) * 100, cents), file = "part_006")

\* the words of the queries given to expandTerms and detectSport
QueryWords == {"bucks", "MIL", "kc", "VS", "@"}

\* a query is its words, separated by whitespace
Queries == UNION {[1..n -> QueryWords] : n \in 1..MaxWords}

toUpperCase(w) ==
    CASE w = "bucks" -> "BUCKS"
      [] w = "kc" -> "KC"
      [] OTHER -> w

\* t.length
Length(w) ==
    CASE w = "@" -> 1
      [] w \in {"VS", "KC"} -> 2
      [] w = "MIL" -> 3
      [] w = "BUCKS" -> 5

\* the entries of TEAM_ALIASES that hold a word of the model
TEAM_ALIASES ==
    [k \in {"BUCKS", "CHIEFS"} |->
        IF k = "BUCKS" THEN {"MILWAUKEE", "MIL"} ELSE {"KANSAS CITY", "KC"}]

\* the entries of TEAM_TO_SPORT that hold a word of the model
TEAM_TO_SPORT ==
    [k \in {"BUCKS", "MILWAUKEE", "CHIEFS", "KANSAS CITY", "KC"} |->
        IF k \in {"BUCKS", "MILWAUKEE"} THEN "basketball_nba" ELSE "americanfootball_nfl"]

\* word i of the query is matched by \s+VS\s+ or \s+@\s+ : a VS or @ between
\* two words whose leading whitespace no earlier match has consumed
RECURSIVE IsSeparator(_, _)
IsSeparator(q, i) ==
    /\ 1 < i /\ i < Len(q)
    /\ toUpperCase(q[i]) \in {"VS", "@"}
    /\ ~IsSeparator(q, i - 1)

\* query.toUpperCase().split(/\s+VS\s+|\s+@\s+|\s+/)
SplitQuery(q) ==
    LET Keep(i) == ~IsSeparator(q, i)
        idx == {i \in 1..Len(q) : Keep(i)}
        Nth(n) == CHOOSE i \in idx : Cardinality({j \in idx : j < i}) = n - 1
    IN [n \in 1..Cardinality(idx) |-> toUpperCase(q[Nth(n)])]

\* expandTerms(query), as a set
expandTerms(q) ==
    LET split == SelectSeq(SplitQuery(q), LAMBDA t : Length(t) > 2)
        terms == {split[i] : i \in 1..Len(split)}
    IN terms
       \cup UNION {TEAM_ALIASES[k] : k \in terms \cap DOMAIN TEAM_ALIASES}
       \cup UNION {{k} \cup TEAM_ALIASES[k] :
                      k \in {x \in DOMAIN TEAM_ALIASES : TEAM_ALIASES[x] \cap terms # {}}}

\* the terms of query.toUpperCase().split(/\s+/) that TEAM_TO_SPORT holds
SportTerms(q) == {i \in 1..Len(q) : toUpperCase(q[i]) \in DOMAIN TEAM_TO_SPORT}

\* detectSport(query): the sport of the first such term, or null
detectSport(q) ==
    IF SportTerms(q) = {} THEN NULL
    ELSE TEAM_TO_SPORT[toUpperCase(q[CHOOSE i \in SportTerms(q) :
                                           \A j \in SportTerms(q) : i <= j])]

\* expandTerms(query) for the queries of the model
TermsOf(query) ==
    CASE query = "bucks" -> {"BUCKS", "MILWAUKEE", "MIL"}
      [] query = "nfl" -> {"NFL"}
      [] OTHER -> {}

\* detectSport(query), with the fallback of the handlers to basketball_nba
SportOf(query) == "basketball_nba"

\* SPORT_KEYS[sportInput] of !games; NULL for an unknown sport
SportKeyOf(arg) ==
    CASE arg = "" -> "basketball_nba"
      [] arg = "nfl" -> "americanfootball_nfl"
      [] OTHER -> NULL

\* searchKalshi / searchOddsApi: the items whose text contains one of the terms
Search(items, terms) == SelectSeq(items, LAMBDA x : x.title \in terms)

\* searchPolymarket: sports events that are no futures and contain one of the terms
searchPolymarket(items, terms) ==
    SelectSeq(items, LAMBDA e : e.sports /\ ~e.futures /\ e.title \in terms)

NoVals ==
    [kalshi |-> JsNull, polymarket |-> JsNull, oddsApi |-> JsNull, scores |-> JsNull,
     market |-> JsNull, rawKalshi |-> JsNull, rawPoly |-> JsNull]

Handler(msg, kind, pc, replies) ==
    [cmd |-> msg.cmd, arg |-> msg.arg, mention |-> msg.mention, bot |-> msg.bot,
     chan |-> msg.chan, kind |-> kind, pc |-> pc, vals |-> NoVals, replies |-> replies]

\* the client calls a handler makes after sendTyping, in call order: <<client, key>>
CallsOf(h) ==
    CASE h.kind = "live" -> << <<"kalshi", "*">>, <<"oddsApi", SportOf(h.arg)>>,
                               <<"scores", SportOf(h.arg)>> >>
      [] h.kind = "odds" -> << <<"kalshi", "*">>, <<"polymarket", "*">>,
                               <<"oddsApi", SportOf(h.arg)>> >>
      [] h.kind = "games" -> << <<"oddsApi", SportKeyOf(h.arg)>> >>
      [] h.kind = "kalshi" -> << <<"kalshi", "*">> >>
      [] h.kind = "ticker" -> << <<"market", h.arg>> >>
      [] h.kind = "sports" -> << <<"rawKalshi", "*">>, <<"rawPoly", "*">> >>
      [] OTHER -> << <<"ai", h.chan>> >>

\* the clients without a cache always issue a request
CallAnswersAtOnce(c) == c[1] \in Clients /\ AnswersAtOnce(c[1], c[2])

\* a handler that builds its embed without looking for matches first
FetchRepliesNoGuard(h, vals) ==
    CASE h.kind \in {"live", "odds", "games", "kalshi"} -> Embed(h.kind)
      [] h.kind = "ticker" ->
            IF Truthy(vals.market) THEN Text("market") ELSE Text("error")
      [] h.kind = "sports" ->
            IF Truthy(vals.rawKalshi) /\ Truthy(vals.rawPoly)
            THEN Embed("sports") ELSE Text("error")

\* the reply of a handler that has all its data
FetchReplies(h, vals) ==
    CASE h.kind = "live" ->
            IF Search(vals.kalshi.items, TermsOf(h.arg)) = <<>>
               /\ Search(vals.oddsApi.items, TermsOf(h.arg)) = <<>>
            THEN Text("nolive") ELSE Embed("live")
      [] h.kind = "odds" ->
            IF Search(vals.kalshi.items, TermsOf(h.arg)) = <<>>
               /\ searchPolymarket(vals.polymarket.items, TermsOf(h.arg)) = <<>>
               /\ Search(vals.oddsApi.items, TermsOf(h.arg)) = <<>>
            THEN Text("noodds") ELSE Embed("odds")
      [] h.kind = "games" -> Embed("games")
      [] h.kind = "kalshi" -> Embed("kalshi")
      [] h.kind = "ticker" ->
            IF Truthy(vals.market) THEN Text("market") ELSE Text("error")
      [] h.kind = "sports" ->
            \* res.data.markets || [], Array.isArray(res.data) ? res.data : []
            IF variant = "guarded" THEN Embed("sports")
            \* .filter of a missing list throws into the catch of the handler
            ELSE IF Truthy(vals.rawKalshi) /\ Truthy(vals.rawPoly)
            THEN Embed("sports") ELSE Text("error")

(***************************************************************************)
(* Actions of the price tracker                                            *)
(***************************************************************************)
Boot(programs) ==
    /\ now = 0
    /\ ticks = 0
    /\ priceHistory = <<>>
    /\ priceHistory4 = <<>>
    /\ cache = NewCache
    /\ hasOddsKey \in BOOLEAN
    /\ inflight = {}
    /\ nextReq = 0
    /\ netCalls = [rk \in ResourceKeys |-> 0]
    /\ lastOk = [rk \in ResourceKeys |-> NoResponse]
    /\ conversationHistory = <<>>
    /\ entries = 0
    /\ variant \in programs
    /\ handlers = <<>>
    /\ lastOp = NoOp

Init == Boot(Variants)

\* the clock advances while no handler runs
Tick(d) ==
    /\ ticks < MaxTicks
    /\ now' = now + d
    /\ ticks' = ticks + 1
    /\ lastOp' = Op("tick", NULL, d, <<>>, NULL)
    /\ UNCHANGED <<priceHistory, priceHistory4, priceVars>>

\* the price series, caches and histories as an operation finds them
Snapshot == [prices |-> priceHistory, cache |-> cache, hist |-> conversationHistory]

RecordPrice(marketId, price, teamName) ==
    /\ HeldSamples(priceHistory) < MaxSamples
    /\ priceHistory' = recordPrice(priceHistory, marketId, price, teamName, now)
    /\ lastOp' = Op("recordPrice", marketId, price, SeriesOf(priceHistory, marketId), NULL)
                     @@ [pre |-> Snapshot]
    /\ UNCHANGED <<now, ticks, priceHistory4, priceVars>>

\* a handler evaluates getPriceMovement(marketId) for a market of the data it
\* was given (fresh, cached, or the stale payload a failed fetch falls back to)
GetPriceMovement(marketId) ==
    /\ lastOp' = Op("getPriceMovement", marketId, 0, SeriesOf(priceHistory, marketId),
                    getPriceMovement(priceHistory, marketId))
                     @@ [pre |-> Snapshot]
    /\ UNCHANGED <<now, ticks, priceHistory, priceHistory4, priceVars>>

NextPrice ==
    \/ \E d \in TickSteps : Tick(d)
    \/ \E k \in Markets, p \in PriceSet, tm \in Teams : RecordPrice(k, p, tm)
    \/ \E k \in Markets : GetPriceMovement(k)

\* the trackers of part_000 and of part_000's variant part_004 record the same sample
RecordBoth(marketId, price, teamName) ==
    /\ HeldSamples(priceHistory4) < MaxSamples
    /\ priceHistory' = recordPrice(priceHistory, marketId, price, teamName, now)
    /\ priceHistory4' = recordPrice4(priceHistory4, marketId, price, now)
    /\ lastOp' = Op("recordBoth", marketId, price, SeriesOf(priceHistory4, marketId), NULL)
    /\ UNCHANGED <<now, ticks, priceVars>>

\* getPriceMovement(marketId) of both trackers: before is the result of
\* part_004, ret the result of part_000
MovementOfBoth(marketId) ==
    /\ lastOp' = Op("movements", marketId, 0, getPriceMovement4(priceHistory4, marketId),
                    getPriceMovement(priceHistory, marketId))
    /\ UNCHANGED <<now, ticks, priceHistory, priceHistory4, priceVars>>

NextTrackers ==
    \/ \E d \in TickSteps : Tick(d)
    \/ \E k \in Markets, p \in PriceSet, tm \in Teams : RecordBoth(k, p, tm)
    \/ \E k \in Markets : MovementOfBoth(k)

\* the program of part_000 with ODDS_API_KEY set
InitLive == Init /\ variant = "live" /\ hasOddsKey

SpecPrice == InitLive /\ [][NextPrice]_vars

\* both trackers fed the same calls at the same times
SpecTrackers == InitLive /\ [][NextTrackers]_vars

(***************************************************************************)
(* Actions of the cached API clients                                       *)
(***************************************************************************)
\* the clock advances (also while requests are in flight)
TickCache(d) ==
    /\ ticks < MaxNetTicks
    /\ now' = now + d
    /\ ticks' = ticks + 1
    /\ lastOp' = Op("tick", NULL, d, <<>>, NULL)
    /\ UNCHANGED <<priceHistory, priceHistory4, priceVars>>

\* the record of a client call: whether it used the cache, the number of
\* requests issued for the key before it, and whether it directly follows a
\* failed request for the same key
CallOp(client, key, arg, ret) ==
    Op("call", <<client, key>>, arg, netCalls[<<client, key>>], ret)
       @@ [afterFail |-> lastOp.op = "httpFail" /\ lastOp.key = <<client, key>>]

\* getKalshiMarkets(), getPolymarketEvents(), getOddsForSport(key), getLiveScores(key)
\* up to its first await: a value at once, or one HTTP request
CallClient(client, key) ==
    /\ IF AnswersAtOnce(client, key)
       THEN /\ lastOp' = CallOp(client, key, "hit", ValueAtOnce(client, key))
            /\ UNCHANGED <<inflight, nextReq, netCalls>>
       ELSE /\ nextReq < MaxCalls
            /\ inflight' = inflight \cup {Request(client, key, 0)}
            /\ nextReq' = nextReq + 1
            /\ netCalls' = [netCalls EXCEPT ![<<client, key>>] = @ + 1]
            /\ lastOp' = CallOp(client, key, "miss", JsNull)
    /\ UNCHANGED <<now, ticks, priceHistory, priceHistory4, cache, hasOddsKey, lastOk, chatVars>>

\* cache, price series and response log after a successful response of a cached client
StoreResponse(r, data) ==
    /\ priceHistory' = IF r.client = "kalshi"
                       THEN RecordAll(priceHistory, data.items, now)
                       ELSE priceHistory
    /\ cache' = StoreEntry(cache, r.client, r.key, data, now)
    /\ lastOk' = [lastOk EXCEPT ![<<r.client, r.key>>] =
                      [at |-> now, data |-> data, seen |-> @.seen \cup {data}]]

\* an AI call whose failure is thrown to the handler in both programs
AiSettledThrows(m, ok, len) ==
    LET h == handlers[m]
        chat == h.kind \in {"ask", "mention"}
    IN IF ok
       THEN /\ handlers' = [handlers EXCEPT ![m].pc = "done", ![m].replies = sendResponse(len)]
            /\ IF chat
               THEN /\ conversationHistory' =
                          addHistory(conversationHistory, h.chan, "assistant", m)
                    /\ entries' = entries + 1
               ELSE UNCHANGED <<conversationHistory, entries>>
       ELSE /\ handlers' = [handlers EXCEPT ![m].pc = "rejected"]
            /\ UNCHANGED <<conversationHistory, entries>>

\* the handler of message m after the AI call settled: the answer is appended
\* to the history and sent; a failure is thrown (part_000) or answered (bot.js)
AiSettled(m, ok, len) ==
    LET h == handlers[m]
        chat == h.kind \in {"ask", "mention"}
    IN IF ok
       THEN /\ handlers' = [handlers EXCEPT ![m].pc = "done", ![m].replies = sendResponse(len)]
            /\ IF chat
               THEN /\ conversationHistory' =
                          addHistory(conversationHistory, h.chan, "assistant", m)
                    /\ entries' = entries + 1
               ELSE UNCHANGED <<conversationHistory, entries>>
       ELSE /\ handlers' =
                  IF variant = "live"
                  THEN [handlers EXCEPT ![m].pc = "rejected"]
                  ELSE [handlers EXCEPT ![m].pc = "done",
                                        ![m].replies = IF chat THEN sendResponse(ApologyLen)
                                                       ELSE Text("error")]
            /\ UNCHANGED <<conversationHistory, entries>>

\* the value of request r reaches the handler that awaits it; thrown: the
\* awaited promise rejected (only the clients without a cache let a failure through)
Deliver(r, value, thrown) ==
    LET m == r.owner
        h == handlers[m]
        rest == {q \in inflight \ {r} : q.owner = m}
        vals == [h.vals EXCEPT ![r.client] = value]
    IN IF h.pc # "wait"
       THEN UNCHANGED <<handlers, conversationHistory, entries>>
       ELSE IF r.client = "ai"
       THEN AiSettled(m, ~thrown, IF thrown THEN 0 ELSE value.items[1])
       ELSE /\ handlers' =
                  IF thrown
                  THEN [handlers EXCEPT ![m].pc = "done", ![m].replies = Text("error")]
                  ELSE IF rest = {}
                  THEN [handlers EXCEPT ![m].pc = "done", ![m].vals = vals,
                                        ![m].replies = FetchReplies(h, vals)]
                  ELSE [handlers EXCEPT ![m].vals = vals]
            /\ UNCHANGED <<conversationHistory, entries>>

\* the response of request r arrives with status 2xx and the given body
HttpOk(r, body) ==
    LET data == IF r.client \in Clients THEN Normalize(r.client, body) ELSE body
    IN /\ inflight' = inflight \ {r}
       /\ IF r.client \in Clients
          THEN StoreResponse(r, data)
          ELSE UNCHANGED <<priceHistory, cache, lastOk>>
       /\ IF r.owner = 0
          THEN UNCHANGED <<handlers, conversationHistory, entries>>
          ELSE Deliver(r, data, FALSE)
       /\ lastOp' = Op("httpOk", <<r.client, r.key>>, r.id,
                       IF r.client \in Clients THEN EntryOf(cache, r.client, r.key) ELSE NoEntry,
                       data)
                        @@ [owner |-> r.owner]
       /\ UNCHANGED <<now, ticks, priceHistory4, hasOddsKey, nextReq, netCalls, variant>>

\* a catch block that caches what it returns, with the time of the failure
HttpFailRefreshes(r) ==
    /\ inflight' = inflight \ {r}
    /\ IF r.owner = 0
       THEN UNCHANGED <<handlers, conversationHistory, entries>>
       ELSE Deliver(r, FailValue(r), r.client \notin Clients)
    /\ lastOp' = Op("httpFail", <<r.client, r.key>>, r.id,
                    IF r.client \in Clients THEN EntryOf(cache, r.client, r.key) ELSE NoEntry,
                    FailValue(r))
    /\ cache' = IF r.client \in Clients
                THEN StoreEntry(cache, r.client, r.key, FailValue(r), now)
                ELSE cache
    /\ UNCHANGED <<now, ticks, priceHistory, priceHistory4, hasOddsKey, nextReq, netCalls, lastOk, variant>>

\* request r fails: network error, timeout or a non-2xx status
HttpFail(r) ==
    /\ inflight' = inflight \ {r}
    /\ IF r.owner = 0
       THEN UNCHANGED <<handlers, conversationHistory, entries>>
       ELSE Deliver(r, FailValue(r), r.client \notin Clients /\ ~Caught(r))
    /\ lastOp' = Op("httpFail", <<r.client, r.key>>, r.id,
                    IF r.client \in Clients THEN EntryOf(cache, r.client, r.key) ELSE NoEntry,
                    FailValue(r))
                     @@ [pre |-> Snapshot, owner |-> r.owner]
    /\ UNCHANGED <<now, ticks, priceHistory, priceHistory4, cache, hasOddsKey, nextReq, netCalls, lastOk,
                   variant>>

NextCache ==
    \/ \E d \in NetTickSteps : TickCache(d)
    \/ \E rk \in ResourceKeys : CallClient(rk[1], rk[2])
    \/ \E r \in inflight : \E body \in BodiesOf(r.client) : HttpOk(r, body)
    \/ \E r \in inflight : HttpFail(r)

\* the program of part_000, with or without ODDS_API_KEY
InitCache == Init /\ variant = "live"

SpecCache == InitCache /\ [][NextCache]_vars

(***************************************************************************)
(* Actions of the messageCreate handler                                    *)
(***************************************************************************)
\* the calls of handler h that need a request, in call order
Needed(h) == SelectSeq(CallsOf(h), LAMBDA c : ~CallAnswersAtOnce(c))

\* the values of the calls of handler h that are answered at once
ValsAtOnce(h) ==
    [slot \in DOMAIN NoVals |->
        IF \E i \in 1..Len(CallsOf(h)) :
              CallsOf(h)[i][1] = slot /\ CallAnswersAtOnce(CallsOf(h)[i])
        THEN ValueAtOnce(slot, (CHOOSE c \in {CallsOf(h)[i] : i \in 1..Len(CallsOf(h))} :
                                    c[1] = slot)[2])
        ELSE JsNull]

\* handler m makes its client calls: every call is answered at once or issues a request
StartCalls(m) ==
    LET h == handlers[m]
        need == Needed(h)
    IN /\ nextReq + Len(need) <= MaxBotCalls
       /\ inflight' = inflight \cup
             {[id |-> nextReq + i, client |-> need[i][1], key |-> need[i][2], owner |-> m,
               cached |-> EntryOf(cache, need[i][1], need[i][2]).data, at |-> now] :
                 i \in 1..Len(need)}
       /\ nextReq' = nextReq + Len(need)
       /\ netCalls' = [rk \in ResourceKeys |->
                          netCalls[rk] + Cardinality({i \in 1..Len(need) : need[i] = rk})]
       /\ handlers' =
             IF need = <<>>
             THEN [handlers EXCEPT ![m].pc = "done", ![m].vals = ValsAtOnce(h),
                                   ![m].replies = FetchReplies(h, ValsAtOnce(h))]
             ELSE [handlers EXCEPT ![m].pc = "wait", ![m].vals = ValsAtOnce(h)]

\* the synchronous start of the handler of a new message, up to its first await
OnMessage(msg) ==
    LET m == Len(handlers) + 1
        kind == Route(variant, msg)
        New(pc, replies) == Append(handlers, Handler(msg, kind, pc, replies))
        Ask == [id |-> nextReq + 1, client |-> "ai", key |-> msg.chan, owner |-> m,
                cached |-> JsNull, at |-> now]
    IN /\ lastOp' = Op("messageCreate", m, kind,
                       [hist |-> conversationHistory, cache |-> cache, prices |-> priceHistory],
                       NULL)
       /\ UNCHANGED <<now, ticks, priceHistory, priceHistory4, cache, hasOddsKey, netCalls, lastOk, variant>>
       /\ CASE kind \in {"ignored", "none"} ->
                 /\ handlers' = New("done", <<>>)
                 /\ UNCHANGED <<conversationHistory, entries, inflight, nextReq>>
            [] kind = "help" ->
                 /\ handlers' = New("done", IF variant = "live" THEN Embed("help") ELSE Text("help"))
                 /\ UNCHANGED <<conversationHistory, entries, inflight, nextReq>>
            [] kind = "clear" ->
                 /\ conversationHistory' = MapSet(conversationHistory, msg.chan, <<>>)
                 /\ handlers' = New("done", Text("cleared"))
                 /\ UNCHANGED <<entries, inflight, nextReq>>
            [] kind \in {"live", "odds"} /\ msg.arg = "" ->
                 /\ handlers' = New("done", Text("usage"))
                 /\ UNCHANGED <<conversationHistory, entries, inflight, nextReq>>
            [] kind = "ask" /\ variant = "live" ->
                 /\ conversationHistory' = addHistory(conversationHistory, msg.chan, "user", m)
                 /\ entries' = entries + 1
                 /\ handlers' = New("typing", <<>>)
                 /\ UNCHANGED <<inflight, nextReq>>
            [] kind = "mention" /\ ~HasQuestion(msg) ->
                 /\ handlers' = New("done", IF variant = "live" THEN <<>> ELSE Text("greeting"))
                 /\ UNCHANGED <<conversationHistory, entries, inflight, nextReq>>
            [] \/ kind = "mention" /\ HasQuestion(msg)
               \/ kind = "ask" /\ variant = "basic" ->
                 /\ nextReq < MaxBotCalls
                 /\ conversationHistory' = addHistory(conversationHistory, msg.chan, "user", m)
                 /\ entries' = entries + 1
                 /\ handlers' = New("wait", <<>>)
                 /\ inflight' = inflight \cup {Ask}
                 /\ nextReq' = nextReq + 1
            [] OTHER ->
                 /\ handlers' = New("typing", <<>>)
                 /\ UNCHANGED <<conversationHistory, entries, inflight, nextReq>>

\* the bot receives a message
MessageCreate(msg) ==
    /\ Len(handlers) < MaxMsgs
    /\ OnMessage(msg)

\* handler m resumes after  await message.channel.sendTyping()
AfterTyping(m) ==
    LET h == handlers[m]
    IN /\ h.pc = "typing"
       /\ lastOp' = Op("afterTyping", m, h.kind, conversationHistory, NULL)
       /\ UNCHANGED <<now, ticks, priceHistory, priceHistory4, cache, hasOddsKey, lastOk, variant,
                      conversationHistory, entries>>
       /\ IF h.kind = "games" /\ ~hasOddsKey
          THEN /\ handlers' = [handlers EXCEPT ![m].pc = "done", ![m].replies = Text("nokey")]
               /\ UNCHANGED <<inflight, nextReq, netCalls>>
          ELSE IF h.kind = "games" /\ SportKeyOf(h.arg) = NULL
          THEN /\ handlers' = [handlers EXCEPT ![m].pc = "done",
                                                ![m].replies = Text("unknownsport")]
               /\ UNCHANGED <<inflight, nextReq, netCalls>>
          ELSE StartCalls(m)

\* the clock advances while the bot runs
TickBot(d) ==
    /\ ticks < MaxBotTicks
    /\ now' = now + d
    /\ ticks' = ticks + 1
    /\ lastOp' = Op("tick", NULL, d, <<>>, NULL)
    /\ UNCHANGED <<priceHistory, priceHistory4, priceVars>>

Next ==
    \/ \E msg \in Messages : MessageCreate(msg)
    \/ \E m \in 1..Len(handlers) : AfterTyping(m)
    \/ \E r \in inflight : \E body \in BodiesOf(r.client) : HttpOk(r, body)
    \/ \E r \in inflight : HttpFail(r)
    \/ \E d \in NetTickSteps : TickBot(d)

Spec == Init /\ [][Next]_vars

\* the bot of part_000 alone
SpecLive == InitCache /\ [][Next]_vars

\* the messages of a conversation with the AI: questions by `!ask` in two
\* channels, a question that mentions the bot, and `!clear`
ChatMessages ==
    {msg \in Messages :
        /\ ~msg.bot
        /\ \/ msg.cmd = "!ask" /\ msg.arg = "bucks" /\ ~msg.mention
           \/ msg.cmd = "hello" /\ msg.arg = "" /\ msg.mention
           \/ msg.cmd = "!clear" /\ msg.arg = "" /\ ~msg.mention /\ msg.chan = "c1"}

\* the bot receives a message of a conversation
ChatMessage(msg) ==
    /\ Len(handlers) < MaxChatMsgs
    /\ OnMessage(msg)

NextChat ==
    \/ \E msg \in ChatMessages : ChatMessage(msg)
    \/ \E m \in 1..Len(handlers) : AfterTyping(m)
    \/ \E r \in inflight : \E body \in BodiesOf(r.client) : HttpOk(r, body)
    \/ \E r \in inflight : HttpFail(r)

\* either bot program, with ODDS_API_KEY set
InitChat == Init /\ hasOddsKey

SpecChat == InitChat /\ [][NextChat]_vars

\* `!sports` as a user sends it
SportsMessages == {msg \in Messages : IsWord(msg, "!sports") /\ ~msg.bot /\ ~msg.mention}

\* a later program of bot.js receives `!sports`
SportsMessage(msg) ==
    /\ Len(handlers) < MaxSportsMsgs
    /\ OnMessage(msg)

NextSports ==
    \/ \E msg \in SportsMessages : SportsMessage(msg)
    \/ \E m \in 1..Len(handlers) : AfterTyping(m)
    \/ \E r \in inflight : \E body \in BodiesOf(r.client) : HttpOk(r, body)
    \/ \E r \in inflight : HttpFail(r)

\* the second and the third program of bot.js
InitSports == Boot(SportsVariants) /\ hasOddsKey

SpecSports == InitSports /\ [][NextSports]_vars

\* the bot handles a message while Kalshi fetches of other handlers are under way
NextShared ==
    \/ CallClient("kalshi", "*")
    \/ Next

SpecShared == InitCache /\ [][NextShared]_vars

(***************************************************************************)
(* Actions of the conversation history                                     *)
(***************************************************************************)
\* addHistory(channelId, role, content) with a content not used before
AddHistory(channelId, role) ==
    /\ entries < MaxEntries
    /\ channelId = "c2" => Len(getHistory(conversationHistory, "c2")) < MaxSide
    /\ role = "assistant" => RoleCount(conversationHistory, "assistant") < MaxAssist
    /\ conversationHistory' = addHistory(conversationHistory, channelId, role, entries + 1)
    /\ entries' = entries + 1
    /\ lastOp' = Op("addHistory", channelId, entries + 1, conversationHistory, NULL)
    /\ UNCHANGED <<now, ticks, priceHistory, priceHistory4, netVars, botVars>>

NextHistory ==
    \E c \in Channels, role \in Roles : AddHistory(c, role)

SpecHistory == InitLive /\ [][NextHistory]_vars

(***************************************************************************)
(* Actions of the pure helpers                                             *)
(***************************************************************************)
\* a handler evaluates centsToAmericanOdds(cents)
CentsToAmericanOdds(file, cents) ==
    /\ lastOp' = Op("centsToAmericanOdds", file, cents, <<>>, centsToAmericanOdds(file, cents))
    /\ UNCHANGED <<now, ticks, priceHistory, priceHistory4, priceVars>>

\* a handler calls sendResponse(message, response) with a text of len characters
SendResponse(len) ==
    /\ lastOp' = Op("sendResponse", NULL, len, matchChunks(len), sendResponse(len))
    /\ UNCHANGED <<now, ticks, priceHistory, priceHistory4, priceVars>>

\* a handler calls expandTerms(query) and detectSport(query)
ExpandTerms(q) ==
    /\ lastOp' = Op("expandTerms", q, 0, detectSport(q), expandTerms(q))
    /\ UNCHANGED <<now, ticks, priceHistory, priceHistory4, priceVars>>

NextPure ==
    \/ \E file \in OddsFiles, cents \in CentsInputs : CentsToAmericanOdds(file, cents)
    \/ \E len \in TextLens : SendResponse(len)
    \/ \E q \in Queries : ExpandTerms(q)

SpecPure == InitLive /\ [][NextPure]_vars

(***************************************************************************)
(* Properties of the price tracker                                         *)
(***************************************************************************)
Span(h) == h[Len(h)].timestamp - h[1].timestamp

Delta(h) == h[Len(h)].price - h[1].price

\* C1: getPriceMovement(k) is null whenever the oldest and the newest retained
\* sample of series k are less than 60 seconds apart, whatever the prices.
C1_NullUnderOneMinute ==
    \A k \in DOMAIN priceHistory :
        (Len(priceHistory[k]) >= 2 /\ Span(priceHistory[k]) < 60000)
            => getPriceMovement(priceHistory, k) = NoMovement

\* C2: for a series of at least 2 samples spanning at least one minute the
\* result is null exactly when the absolute price difference is below 3;
\* otherwise it carries delta = newest - oldest, the span rounded to the
\* nearest minute (halves up) and the direction given by the sign of delta.
C2_MovementOverOneMinute ==
    \A k \in DOMAIN priceHistory :
        LET h == priceHistory[k]
            r == getPriceMovement(priceHistory, k)
        IN (Len(h) >= 2 /\ Span(h) >= 60000) =>
              /\ (r = NoMovement) <=> (Delta(h) > -3 /\ Delta(h) < 3)
              /\ r # NoMovement =>
                    /\ r.change = Delta(h)
                    /\ 60000 * r.minutesAgo - 30000 <= Span(h)
                    /\ Span(h) < 60000 * r.minutesAgo + 30000
                    /\ (Delta(h) > 0 => r.direction = "up")
                    /\ (Delta(h) < 0 => r.direction = "down")

\* 50 then 54 two minutes later gives delta 4, elapsed 2, up
C2_Witness ==
    \E k \in DOMAIN priceHistory :
          /\ Len(priceHistory[k]) >= 2
          /\ priceHistory[k][1].price = 50
          /\ Span(priceHistory[k]) = 120000
          /\ getPriceMovement(priceHistory, k) # NoMovement
          /\ getPriceMovement(priceHistory, k).change = 4
          /\ getPriceMovement(priceHistory, k).minutesAgo = 2
          /\ getPriceMovement(priceHistory, k).direction = "up"

\* C3: getPriceMovement(k) is null whenever series k is absent or holds fewer
\* than 2 samples, whatever was recorded on this or any other key.
C3_NullBelowTwoSamples ==
    \A k \in Markets :
        (k \notin DOMAIN priceHistory \/ Len(priceHistory[k]) < 2)
            => getPriceMovement(priceHistory, k) = NoMovement

\* one market holds a single sample while another one has moved, a third is absent
C3_Witness ==
    /\ \E k \in DOMAIN priceHistory : Len(priceHistory[k]) = 1
    /\ \E k \in DOMAIN priceHistory : getPriceMovement(priceHistory, k) # NoMovement
    /\ lastOp.op = "recordPrice"

\* C4: right after recordPrice(k, ...) at time now, series k holds no sample
\* older than now - 10 minutes, ends with the new sample, and before it holds
\* exactly the earlier samples that are not older than that, in their order.
C4_RecordEvictsOld ==
    lastOp.op = "recordPrice" =>
        LET s == priceHistory[lastOp.key]
            b == lastOp.before
            Fresh(x) == x.timestamp >= now - 600000
        IN /\ \A i \in 1..Len(s) : Fresh(s[i])
           /\ Len(s) >= 1
           /\ s[Len(s)].price = lastOp.arg
           /\ s[Len(s)].timestamp = now
           /\ SubSeq(s, 1, Len(s) - 1) = SelectSeq(b, Fresh)

\* a record that evicted an older sample and kept one exactly 10 minutes old
C4_Witness ==
    /\ lastOp.op = "recordPrice"
    /\ Len(lastOp.before) >= 2
    /\ Len(priceHistory[lastOp.key]) = 2
    /\ priceHistory[lastOp.key][1].timestamp = now - 600000

C6_FailServesCached ==
    lastOp.op = "httpFail" =>
        lastOp.ret = (IF Truthy(lastOp.before.data) THEN lastOp.before.data ELSE EmptyArr)

(***************************************************************************)
(* Properties of the conversation history                                  *)
(***************************************************************************)
\* C7: every channel history holds at most 20 entries; adding to a full
\* history drops exactly the oldest entry and keeps the other 19 in order,
\* followed by the new entry; adding to a channel changes no other channel.
C7_HistoryBounded ==
    /\ \A c \in DOMAIN conversationHistory : Len(conversationHistory[c]) <= 20
    /\ lastOp.op = "addHistory" =>
          LET h == conversationHistory[lastOp.key]
              b == getHistory(lastOp.before, lastOp.key)
          IN /\ h[Len(h)].content = lastOp.arg
             /\ Len(b) < 20 => SubSeq(h, 1, Len(h) - 1) = b
             /\ Len(b) = 20 => /\ Len(h) = 20
                                /\ \A i \in 1..19 : h[i] = b[i + 1]
             /\ \A c \in Channels \ {lastOp.key} :
                    getHistory(conversationHistory, c) = getHistory(lastOp.before, c)

\* an entry was added to a full history while another channel holds an entry
C7_Witness ==
    /\ lastOp.op = "addHistory"
    /\ Len(getHistory(lastOp.before, lastOp.key)) = 20
    /\ \E c \in DOMAIN conversationHistory :
          c # lastOp.key /\ Len(conversationHistory[c]) > 0

(***************************************************************************)
(* Properties of the messageCreate handler                                 *)
(***************************************************************************)
\* the commands of the chat command surface
DocumentedCommands ==
    {"!help", "!clear", "!odds", "!live", "!games", "!kalshi", "!ask", "!math", "!summary"}

\* the handler of the message has run to its end (returned or threw)
Finished(h) == h.pc \in {"done", "rejected"}

\* C8: every message of a user that is a documented command, with or without
\* an argument, or that mentions the bot, has at least one reply once its
\* handler has finished, also when an upstream call failed.
C8_AlwaysReplies ==
    \A m \in 1..Len(handlers) :
        LET h == handlers[m]
        IN (Finished(h) /\ ~h.bot /\ (h.cmd \in DocumentedCommands \/ h.mention))
              => Len(h.replies) >= 1

\* C9: no failure of an upstream call leaves a messageCreate handler as a
\* rejection; every handler catches it and ends normally.
C9_NoRejection ==
    \A m \in 1..Len(handlers) : handlers[m].pc # "rejected"

\* C10: the message `!clear` of a user in channel c empties the history of c,
\* is answered by exactly one reply and leaves the histories of the other
\* channels, the caches and the price series as they were, in both programs.
C10_ClearResets ==
    (lastOp.op = "messageCreate"
     /\ IsWord(handlers[lastOp.key], "!clear") /\ ~handlers[lastOp.key].bot) =>
        LET h == handlers[lastOp.key]
        IN /\ getHistory(conversationHistory, h.chan) = <<>>
           /\ Finished(h)
           /\ Len(h.replies) = 1
           /\ \A c \in Channels \ {h.chan} :
                  getHistory(conversationHistory, c) = getHistory(lastOp.before.hist, c)
           /\ cache = lastOp.before.cache
           /\ priceHistory = lastOp.before.prices

\* the command patterns of the messageCreate handler of part_000, in source order
PatternOrder ==
    <<"help", "clear", "live", "odds", "games", "kalshi", "math", "summary", "ask">>

\* whether the text of the message satisfies the test of a command branch
PatternMatches(msg, kind) ==
    CASE kind = "help" -> msg.cmd = "!help" /\ msg.arg = ""
      [] kind = "clear" -> msg.cmd = "!clear" /\ msg.arg = ""
      [] kind = "live" -> msg.cmd = "!live"
      [] kind = "odds" -> msg.cmd = "!odds"
      [] kind = "games" -> msg.cmd = "!games"
      [] kind = "kalshi" -> msg.cmd = "!kalshi"
      [] kind = "math" -> msg.cmd = "!math" /\ msg.arg # ""
      [] kind = "summary" -> msg.cmd = "!summary" /\ msg.arg # ""
      [] kind = "ask" -> msg.cmd = "!ask" /\ msg.arg # ""

\* the replies the branch of a kind can send
ReplyTags(kind) ==
    CASE kind = "help" -> {"help"}
      [] kind = "clear" -> {"cleared"}
      [] kind = "live" -> {"usage", "nolive", "live", "error"}
      [] kind = "odds" -> {"usage", "noodds", "odds", "error"}
      [] kind = "games" -> {"nokey", "unknownsport", "games", "error"}
      [] kind = "kalshi" -> {"kalshi", "error"}
      [] kind \in {"math", "summary", "ask", "mention"} -> {"answer"}
      [] OTHER -> {}

\* C11: for every message at most one branch runs: the branch of the first
\* command pattern, in source order, that the text matches; the mention branch
\* runs only when no command pattern matches; every reply comes from that
\* branch; a message of a bot runs no branch and gets no reply.
C11_FirstMatchWins ==
    \A m \in 1..Len(handlers) :
        LET h == handlers[m]
            matching == {i \in 1..Len(PatternOrder) : PatternMatches(h, PatternOrder[i])}
            first == CHOOSE i \in matching : \A j \in matching : i <= j
        IN /\ h.bot => (h.kind = "ignored" /\ h.pc = "done" /\ h.replies = <<>>)
           /\ (~h.bot /\ matching # {}) => h.kind = PatternOrder[first]
           /\ (~h.bot /\ matching = {}) => h.kind = (IF h.mention THEN "mention" ELSE "none")
           /\ \A i \in 1..Len(h.replies) : h.replies[i].tag \in ReplyTags(h.kind)

\* `!help` sent as a reply that pings the bot: answered by the help branch alone
C11_Witness ==
    \E m \in 1..Len(handlers) :
        /\ handlers[m].mention /\ ~handlers[m].bot
        /\ handlers[m].kind = "help"
        /\ handlers[m].pc = "done"
        /\ Len(handlers[m].replies) = 1

\* C12: when the Kalshi, Polymarket and odds fetches of `!odds bucks` all
\* return empty collections, the handler sends exactly one reply, the plain
\* text "no odds" message, and no embed.
C12_NoOddsReply ==
    \A m \in 1..Len(handlers) :
        LET h == handlers[m]
        IN (/\ h.kind = "odds" /\ h.arg = "bucks" /\ h.pc = "done"
            /\ h.vals.kalshi = EmptyArr
            /\ h.vals.polymarket = EmptyArr
            /\ h.vals.oddsApi = EmptyArr)
           => /\ Len(h.replies) = 1
              /\ h.replies[1].via = "reply"
              /\ h.replies[1].kind = "text"
              /\ h.replies[1].tag = "noodds"

\* `!odds bucks` answered after three requests that brought nothing
C12_Witness ==
    \E m \in 1..Len(handlers) :
        /\ handlers[m].kind = "odds" /\ handlers[m].arg = "bucks" /\ handlers[m].pc = "done"
        /\ handlers[m].vals.kalshi = EmptyArr
        /\ handlers[m].vals.polymarket = EmptyArr
        /\ handlers[m].vals.oddsApi = EmptyArr
        /\ hasOddsKey /\ nextReq = 3 /\ inflight = {}
        /\ handlers[m].replies = Text("noodds")

(***************************************************************************)
(* Properties of the pure helpers                                          *)
(***************************************************************************)
\* C13: centsToAmericanOdds returns null for every input <= 0 and every input
\* >= 100, -100 for 50, +300 for 25, and a non-null value for every integer
\* input in 1..99.
C13_OddsRange ==
    lastOp.op = "centsToAmericanOdds" =>
        LET c == lastOp.arg
            r == lastOp.ret
        IN /\ (c <= 0 \/ c >= 100) => r.isNull
           /\ c = 50 => (~r.isNull /\ r.value = -100)
           /\ c = 25 => (~r.isNull /\ r.value = 300)
           /\ (c >= 1 /\ c <= 99) => ~r.isNull

\* 25 cents converted to +300
C13_Witness ==
    /\ lastOp.op = "centsToAmericanOdds"
    /\ lastOp.arg = 25
    /\ ~lastOp.ret.isNull
    /\ lastOp.ret.value = 300

\* C14: for every integer cents in 1..99 the result equals the formula: for
\* cents >= 50 the negation of round(cents/(100-cents)*100), for cents < 50
\* round((100-cents)/cents*100), round being the nearest integer of the
\* non-negative ratio with halves rounded up.
C14_OddsFormula ==
    (lastOp.op = "centsToAmericanOdds" /\ lastOp.arg >= 1 /\ lastOp.arg <= 99) =>
        LET c == lastOp.arg
        IN /\ ~lastOp.ret.isNull
           /\ lastOp.ret.value = (IF c >= 50
                                   THEN -((2 * (c * 100) + (100 - c)) \div (2 * (100 - c)))
                                   ELSE (2 * ((100 - c) * 100) + c) \div (2 * c))

\* C15: a text of at most 2000 characters is sent whole as one reply; a
\* longer one is cut into consecutive pieces of at most 1900 characters, the
\* first sent as a reply and the others as channel sends in order, the pieces
\* together are the text, there are ceil(length/1900) of them, and no
\* message is longer than 2000 characters.
C15_Chunking ==
    lastOp.op = "sendResponse" =>
        LET len == lastOp.arg
            s == lastOp.ret
            cut == lastOp.before
        IN /\ len <= 2000 => s = <<Sent("reply", "text", "answer", len)>>
           /\ len > 2000 =>
                /\ 1900 * (Len(s) - 1) < len /\ len <= 1900 * Len(s)
                /\ Len(cut) = Len(s)
                /\ cut[1].from = 1 /\ cut[Len(cut)].to = len
                /\ \A i \in 1..Len(s) :
                      /\ s[i].via = (IF i = 1 THEN "reply" ELSE "send")
                      /\ s[i].kind = "text"
                      /\ s[i].len = cut[i].to - cut[i].from + 1
                      /\ s[i].len >= 1 /\ s[i].len <= 1900
                      /\ i > 1 => cut[i].from = cut[i - 1].to + 1
           /\ \A i \in 1..Len(s) : s[i].len <= 2000

\* a text of 3801 characters sent as a reply of 1900, a send of 1900 and a send of 1
C15_Witness ==
    /\ lastOp.op = "sendResponse"
    /\ lastOp.arg = 3801
    /\ Len(lastOp.ret) = 3
    /\ lastOp.ret[1].via = "reply" /\ lastOp.ret[1].len = 1900
    /\ lastOp.ret[3].via = "send" /\ lastOp.ret[3].len = 1

(***************************************************************************)
(* Properties of the cached API clients under interleaving                 *)
(***************************************************************************)
\* the requests for a resource key that were issued less than 30 s ago and
\* still await their response
Pending(rk) ==
    {r \in inflight : r.client = rk[1] /\ r.key = rk[2] /\ now - r.at < CACHE_TTL}

\* C16: in every interleaving a resource key requested twice within one 30 s
\* window causes one network request: a call that starts while a request for
\* its key issued less than 30 s ago is still awaited, or less than 30 s after
\* a successful response, issues none.
C16_OneRequestPerWindow ==
    /\ \A rk \in ResourceKeys : Cardinality(Pending(rk)) <= 1
    /\ lastOp.op = "call" =>
          ((lastOk[lastOp.key].at >= 0 /\ now - lastOk[lastOp.key].at < CACHE_TTL)
              => (lastOp.arg = "hit" /\ netCalls[lastOp.key] = lastOp.before))

\* a failed request of a cached client left the cache entry of its key as it was
FailKeepsEntry ==
    lastOp.op = "httpFail" =>
        EntryOf(cache, lastOp.key[1], lastOp.key[2]) = lastOp.before

Ends(k, h) == [x \in {k} |-> <<h[1], h[Len(h)]>>]

\* C18: getPriceMovement(k) depends only on the oldest and the newest retained
\* sample of series k: its result is the result for the series made of these
\* two samples alone, so any two series that agree on them give the same
\* result whatever lies in between.
C18_OnlyEndsMatter ==
    (lastOp.op = "getPriceMovement" /\ Len(lastOp.before) >= 2) =>
        lastOp.ret = getPriceMovement(Ends(lastOp.key, lastOp.before), lastOp.key)

\* a movement reported for a series of three samples whose middle sample lies
\* outside the range of the other two
C18_Witness ==
    /\ lastOp.op = "getPriceMovement"
    /\ Len(lastOp.before) = 3
    /\ lastOp.ret # NoMovement
    /\ lastOp.before[2].price < lastOp.before[1].price
    /\ lastOp.before[2].price < lastOp.before[3].price

\* C19: recordPrice(k, ...) changes only series k and leaves every other
\* series, every cache entry and every conversation history unchanged;
\* getPriceMovement changes nothing at all.
C19_Frame ==
    /\ lastOp.op = "recordPrice" =>
          /\ \A k \in Markets \ {lastOp.key} :
                /\ (k \in DOMAIN priceHistory) = (k \in DOMAIN lastOp.pre.prices)
                /\ SeriesOf(priceHistory, k) = SeriesOf(lastOp.pre.prices, k)
          /\ cache = lastOp.pre.cache
          /\ conversationHistory = lastOp.pre.hist
    /\ lastOp.op = "getPriceMovement" =>
          /\ priceHistory = lastOp.pre.prices
          /\ cache = lastOp.pre.cache
          /\ conversationHistory = lastOp.pre.hist

\* a sample recorded for one market while the other market holds a sample
\* older than the retention window
C19_Witness ==
    /\ lastOp.op = "recordPrice"
    /\ \E k \in DOMAIN priceHistory \ {lastOp.key} :
          /\ Len(priceHistory[k]) >= 1
          /\ priceHistory[k][1].timestamp < now - PRICE_HISTORY_TTL

\* C20: when getPriceMovement(k) is evaluated, the samples of series k it
\* compares are at most 10 minutes older than the current time, and a change
\* it reports as "in last N min" happened within the N minutes (as rounded)
\* before the query.
C20_ReadsFreshSamples ==
    (lastOp.op = "getPriceMovement" /\ Len(lastOp.before) >= 2) =>
        LET b == lastOp.before
        IN /\ now - b[1].timestamp <= 600000
           /\ now - b[Len(b)].timestamp <= 600000
           /\ lastOp.ret # NoMovement =>
                 now - b[1].timestamp < 60000 * lastOp.ret.minutesAgo + 30000

\* C21: in every reachable state the timestamps of each price series are
\* non-decreasing from front to back and the newest is at most 10 minutes
\* after the oldest; every non-null getPriceMovement result has an elapsed
\* time of 1 to 10 minutes and a change of at least 3 in absolute value.
C21_SeriesWithinWindow ==
    \A k \in DOMAIN priceHistory :
        LET h == priceHistory[k]
            r == getPriceMovement(priceHistory, k)
        IN /\ \A i \in 1..(Len(h) - 1) : h[i].timestamp <= h[i + 1].timestamp
           /\ Len(h) >= 1 => h[Len(h)].timestamp - h[1].timestamp <= 600000
           /\ r # NoMovement =>
                 /\ 1 <= r.minutesAgo /\ r.minutesAgo <= 10
                 /\ (r.change >= 3 \/ r.change <= -3)

\* a series that spans exactly 10 minutes and reports a movement over 10 minutes
C21_Witness ==
    \E k \in DOMAIN priceHistory :
        /\ Len(priceHistory[k]) >= 2
        /\ Span(priceHistory[k]) = 600000
        /\ getPriceMovement(priceHistory, k) # NoMovement
        /\ getPriceMovement(priceHistory, k).minutesAgo = 10

(***************************************************************************)
(* Properties of the Kalshi client and the price series                    *)
(***************************************************************************)
\* the markets of a payload that carry the ticker and a non-zero yes_bid
Bids(data, ticker) ==
    SelectSeq(data.items, LAMBDA m : m.ticker = ticker /\ m.yes_bid # 0)

\* the step is a successful response of the Kalshi markets request
KalshiSuccess == lastOp'.op = "httpOk" /\ lastOp'.key[1] = "kalshi"

\* C22: price samples are appended only by a successful Kalshi fetch, one
\* sample for every market it returns with a non-zero yes_bid (behind the
\* samples of the series that are not older than 10 minutes); a market
\* returned with yes_bid = 0 gets none; a cache hit, a failed fetch and every
\* other step of every command leave all series as they are.
C22_SamplesOnlyFromFetch ==
    [][ IF KalshiSuccess
        THEN \A k \in Markets \cup ParlayTickers :
                LET old == SelectSeq(SeriesOf(priceHistory, k),
                                     LAMBDA x : x.timestamp >= now - PRICE_HISTORY_TTL)
                    new == Bids(lastOp'.ret, k)
                    h == SeriesOf(priceHistory', k)
                IN IF new = <<>>
                   THEN h = SeriesOf(priceHistory, k)
                   ELSE /\ Len(h) = Len(old) + Len(new)
                        /\ SubSeq(h, 1, Len(old)) = old
                        /\ \A i \in 1..Len(new) :
                              /\ h[Len(old) + i].price = new[i].yes_bid
                              /\ h[Len(old) + i].timestamp = now
        ELSE priceHistory' = priceHistory ]_vars

\* two overlapping Kalshi fetches have both succeeded at the same instant:
\* the series of KXA holds the sample of each, and KXB, returned with
\* yes_bid = 0, has none
C22_Witness ==
    /\ lastOp.op = "httpOk" /\ lastOp.key[1] = "kalshi"
    /\ netCalls[<<"kalshi", "*">>] = 2
    /\ "KXA" \in DOMAIN priceHistory
    /\ Len(priceHistory["KXA"]) = 2
    /\ priceHistory["KXA"][1].timestamp = priceHistory["KXA"][2].timestamp
    /\ \E i \in 1..Len(lastOp.ret.items) :
          lastOp.ret.items[i].ticker = "KXB" /\ lastOp.ret.items[i].yes_bid = 0
    /\ "KXB" \notin DOMAIN priceHistory

\* C23: the cache entry of a resource key holds the payload of the
\* successful response that completed last, with fetched_at equal to its
\* completion time, also when fetches of the key overlapped; fetched_at of an
\* entry never decreases; every payload a cached client returns is the
\* payload of a successful response for that key, the current or an earlier
\* one, or the empty collection.
C23_LastSuccessWins ==
    /\ \A rk \in ResourceKeys :
          lastOk[rk].at >= 0 =>
              /\ HasEntry(cache, rk[1], rk[2])
              /\ EntryOf(cache, rk[1], rk[2]) = [data |-> lastOk[rk].data,
                                                  timestamp |-> lastOk[rk].at]
    /\ lastOp.op = "httpOk" =>
          EntryOf(cache, lastOp.key[1], lastOp.key[2]).timestamp >= lastOp.before.timestamp
    /\ (lastOp.op \in {"httpOk", "httpFail"} \/ (lastOp.op = "call" /\ lastOp.arg = "hit")) =>
          (lastOp.ret = EmptyArr \/ lastOp.ret \in lastOk[lastOp.key].seen)

\* the response of the second of two overlapping fetches arrives later than
\* the first with another payload and replaces the entry that is still fresh
C23_Witness ==
    /\ lastOp.op = "httpOk"
    /\ Truthy(lastOp.before.data)
    /\ lastOp.before.timestamp < now
    /\ now - lastOp.before.timestamp < CACHE_TTL
    /\ lastOp.ret # lastOp.before.data
    /\ inflight = {}
    /\ EntryOf(cache, lastOp.key[1], lastOp.key[2]) = [data |-> lastOp.ret, timestamp |-> now]

(***************************************************************************)
(* Properties of the conversation with the AI                              *)
(***************************************************************************)
\* C24: in every reachable state the history of each channel begins with a
\* user entry and alternates user, assistant, user, ...
C24_RolesAlternate ==
    \A c \in DOMAIN conversationHistory :
        \A i \in 1..Len(conversationHistory[c]) :
            conversationHistory[c][i].role = (IF i % 2 = 1 THEN "user" ELSE "assistant")

\* C25: chatWithClaude never throws: when the AI call fails it returns the
\* apology, which the handler sends, it appends no assistant entry, and the
\* histories stay as they were, with the user entry of the question in place.
C25_ChatNeverThrows ==
    (/\ lastOp.op = "httpFail" /\ lastOp.key[1] = "ai" /\ variant = "basic"
     /\ handlers[lastOp.owner].kind \in {"ask", "mention"}) =>
        LET m == lastOp.owner
            h == handlers[m]
            hist == getHistory(conversationHistory, h.chan)
        IN /\ h.pc = "done"
           /\ h.replies = <<Sent("reply", "text", "answer", 70)>>
           /\ conversationHistory = lastOp.pre.hist
           /\ \E i \in 1..Len(hist) : hist[i] = [role |-> "user", content |-> m]
           /\ \A i \in 1..Len(hist) : hist[i] # [role |-> "assistant", content |-> m]

\* the AI call of a question failed: the apology is sent and the history of
\* the channel ends with the question
C25_Witness ==
    /\ lastOp.op = "httpFail" /\ lastOp.key[1] = "ai" /\ variant = "basic"
    /\ handlers[lastOp.owner].kind = "ask"
    /\ handlers[lastOp.owner].pc = "done"
    /\ Len(handlers[lastOp.owner].replies) = 1
    /\ LET hist == getHistory(conversationHistory, handlers[lastOp.owner].chan)
       IN Len(hist) >= 1 /\ hist[Len(hist)] = [role |-> "user", content |-> lastOp.owner]

\* C26: when `!clear` for a channel is handled after a question (`!ask` or
\* mention) of that channel was received, also while the question still
\* awaits the AI, then once both handlers have finished the history of the
\* channel holds no entry of that question, neither its user entry nor its
\* assistant answer.
C26_ClearDropsPending ==
    \A m, n \in 1..Len(handlers) :
        (/\ m < n
         /\ handlers[m].kind \in {"ask", "mention"}
         /\ handlers[n].kind = "clear"
         /\ handlers[m].chan = handlers[n].chan
         /\ Finished(handlers[m]) /\ Finished(handlers[n])) =>
            LET hist == getHistory(conversationHistory, handlers[m].chan)
            IN \A i \in 1..Len(hist) : hist[i].content # m

(***************************************************************************)
(* C27: `!sports` of the later programs of bot.js joins two requests that  *)
(* each catch their own failure                                            *)
(***************************************************************************)
\* the other one of the two requests of `!sports`
OtherOf(client) == IF client = "rawKalshi" THEN "rawPoly" ELSE "rawKalshi"

\* a request of `!sports` has just settled for its handler
SportsSettled(op) ==
    /\ variant \in SportsVariants
    /\ lastOp.op = op
    /\ lastOp.key[1] \in {"rawKalshi", "rawPoly"}

\* C27: when a request of `!sports` fails, its value is [] and the handler goes
\* on waiting for the other request (the joined await does not reject); once
\* both have settled and the other one brought a list or failed as well, the
\* handler has sent exactly one reply, the embed
C27_OneFailureKeepsOther ==
    /\ SportsSettled("httpFail") =>
          LET h == handlers[lastOp.owner]
              me == lastOp.key[1]
          IN /\ h.vals[me] = EmptyArr
             /\ h.pc # "rejected"
             /\ IF \E q \in inflight : q.owner = lastOp.owner
                THEN h.pc = "wait" /\ h.replies = <<>>
                ELSE Truthy(h.vals[OtherOf(me)]) =>
                        h.pc = "done" /\ h.replies = Embed("sports")
    /\ SportsSettled("httpOk") =>
          LET h == handlers[lastOp.owner]
              me == lastOp.key[1]
          IN (Truthy(h.vals[me]) /\ h.vals[OtherOf(me)] = EmptyArr) =>
                h.pc = "done" /\ h.replies = Embed("sports")

\* one request failed, the other one brought markets, and the embed was sent
C27_Witness ==
    /\ SportsSettled("httpFail")
    /\ handlers[lastOp.owner].pc = "done"
    /\ handlers[lastOp.owner].replies = Embed("sports")
    /\ handlers[lastOp.owner].vals[OtherOf(lastOp.key[1])] \notin {EmptyArr, JsNull}
    /\ handlers[lastOp.owner].vals[lastOp.key[1]] = EmptyArr
(***************************************************************************)
(* C28: the search terms of a query                                        *)
(***************************************************************************)
\* the tokens of the query: the pieces of the split on whitespace, VS and @
TokensOf(q) == {SplitQuery(q)[i] : i \in 1..Len(SplitQuery(q))}

\* C28: expandTerms returns every token of the query, for every token that is
\* a key or an alias of TEAM_ALIASES that key and all its aliases, and every
\* token that detectSport recognises in TEAM_TO_SPORT
C28_TokensKept ==
    lastOp.op = "expandTerms" =>
        /\ TokensOf(lastOp.key) \subseteq lastOp.ret
        /\ \A t \in TokensOf(lastOp.key), k \in DOMAIN TEAM_ALIASES :
              (t = k \/ t \in TEAM_ALIASES[k]) => ({k} \cup TEAM_ALIASES[k]) \subseteq lastOp.ret
        /\ \A i \in SportTerms(lastOp.key) : toUpperCase(lastOp.key[i]) \in lastOp.ret
(***************************************************************************)
(* C29: the odds of a yes price and of its complement                      *)
(***************************************************************************)
\* C29: for a yes price of 1..99 other than 50, the American odds of the yes
\* price are the negated American odds of the no price 100 - yes
C29_ComplementNegates ==
    (/\ lastOp.op = "centsToAmericanOdds"
     /\ lastOp.key = "part_000"
     /\ lastOp.arg \in 1..99
     /\ lastOp.arg # 50) =>
        /\ ~lastOp.ret.isNull
        /\ ~centsToAmericanOdds("part_000", 100 - lastOp.arg).isNull
        /\ lastOp.ret.value = -centsToAmericanOdds("part_000", 100 - lastOp.arg).value

(***************************************************************************)
(* C30: the tracker of part_004 against the tracker of part_000            *)
(***************************************************************************)
\* C30: fed the same recordPrice calls, both trackers hold no sample older
\* than 10 minutes after a sample was recorded, and getPriceMovement is null in
\* one exactly when it is null in the other, with the same change and
\* direction otherwise
C30_TrackersAgree ==
    /\ lastOp.op = "recordBoth" =>
          /\ \A i \in 1..Len(priceHistory4[lastOp.key]) :
                 priceHistory4[lastOp.key][i].timestamp >= now - PRICE_HISTORY_TTL
          /\ Len(priceHistory4[lastOp.key]) = Len(priceHistory[lastOp.key])
    /\ lastOp.op = "movements" =>
          /\ (lastOp.ret = NoMovement) <=> (lastOp.before = NoMovement4)
          /\ lastOp.ret.change = lastOp.before.change
          /\ lastOp.ret.direction = lastOp.before.direction
====
